---- MODULE Spec2Model ----
(***************************************************************************)
(* Model of types/src/examples/job_and_result_submission.ts: the script    *)
(* that connects to a Tangle node, creates the role profiles of Alice and  *)
(* Bob, submits a DKG job, builds the job result and submits it.           *)
(*                                                                         *)
(* The script is one async function.  Its state is the position of the     *)
(* main flow, its local constants, and for each of the four transactions   *)
(* the promise created around signAndSend, the promise returned by         *)
(* signAndSend, the `unsub` binding and the subscription.  The JavaScript  *)
(* job queue is modelled explicitly: a websocket notification is handled   *)
(* only when the queue of promise jobs is empty, and promise jobs run in   *)
(* FIFO order.  The chain is the environment.                              *)
(***************************************************************************)
EXTENDS Integers, Sequences, FiniteSets, TLC

(* ------------------------------ bounds --------------------------------- *)

\* the chain's job counter starts anywhere in 0..MaxInitJobId
MaxInitJobId == 1

\* jobs that accounts other than the script get included during the run
MaxOtherJobs == 1

\* how many times the script is run against the same chain (SpecRerun)
MaxRuns == 2

(* -------------------------- program constants -------------------------- *)

\* Alice's createProfile, Bob's createProfile, submitJob, submitJobResult
NumTxs == 4

Txs == 1..NumTxs

ALICE_ROLE_SEED ==
    <<203, 109, 249, 222, 30, 252, 167, 163, 153, 138, 142, 173, 78, 2, 21, 157,
      95, 169, 156, 62, 13, 79, 214, 67, 38, 103, 57, 11, 180, 114, 104, 84>>

BOB_ROLE_SEED ==
    <<121, 195, 183, 252, 11, 118, 151, 185, 65, 76, 184, 122, 220, 179, 115, 23,
      209, 202, 179, 40, 24, 174, 24, 192, 233, 122, 215, 99, 149, 209, 253, 207>>

DKG_PRIVATE_KEY ==
    <<238, 199, 36, 93, 107, 125, 44, 203, 48, 56, 11, 251, 226, 163, 100, 140,
      215, 169, 66, 101, 63, 90, 163, 64, 237, 206, 161, 242, 131, 104, 102, 25>>

lowR == FALSE

v == IF lowR THEN 27 ELSE 28

\* the call and the signer of each transaction, in program order
TxPlan ==
    <<[call |-> "roles.createProfile", signer |-> "ALICE"],
      [call |-> "roles.createProfile", signer |-> "BOB"],
      [call |-> "jobs.submitJob", signer |-> "ALICE"],
      [call |-> "jobs.submitJobResult", signer |-> "ALICE"]>>

(* ------------------------- library functions --------------------------- *)
(* The elliptic-curve and hash primitives are external.  They are modelled *)
(* as fixed byte-level functions that keep what the script depends on: the *)
(* lengths of their results, that they are functions of their arguments,   *)
(* and that the compressed and the uncompressed encodings of a public key  *)
(* differ.                                                                 *)

Byte(n) == n % 256

\* x coordinate of the public point of private key d (32 bytes)
PointX(d) == [i \in 1..32 |-> Byte(d[i] * 7 + d[(i % 32) + 1] + i)]

\* y coordinate of the public point of private key d (32 bytes)
PointY(d) == [i \in 1..32 |-> Byte(d[i] * 13 + d[((i + 4) % 32) + 1] * 3 + 1)]

\* tiny-secp256k1 pointFromScalar: 33 bytes compressed, 65 bytes uncompressed
PointFromScalar(d, compressed) ==
    IF compressed
    THEN <<2 + (PointY(d)[32] % 2)>> \o PointX(d)
    ELSE <<4>> \o PointX(d) \o PointY(d)

NoKey == [privateKey |-> <<>>, publicKey |-> <<>>, compressed |-> TRUE]

\* ECPair.fromPrivateKey(buffer, options); options.compressed defaults to true
ECPairFromPrivateKey(d, compressed) ==
    [privateKey |-> d,
     publicKey |-> PointFromScalar(d, compressed),
     compressed |-> compressed]

\* keccak256AsU8a: a 32-byte digest of the message, of any length
keccak256AsU8a(m) ==
    [i \in 1..32 |->
        Byte(m[((i - 1) % Len(m)) + 1] + 31 * m[((i * 7) % Len(m)) + 1] + Len(m) + i)]

\* ECPair.sign(hash, lowR): the 64 bytes r || s
Sign(key, hash, lr) ==
    [i \in 1..64 |->
        IF i <= 32
        THEN LET r == Byte(key.privateKey[i] + 3 * hash[i] + 17)
             IN  IF lr /\ i = 1 THEN r % 128 ELSE r
        ELSE Byte(5 * key.privateKey[i - 32] + hash[i - 32] + 101)]

(* --------------------------- array helpers ----------------------------- *)

\* an array hole, read back as undefined
Undefined == 0 - 1

\* Array.from(buffer): a plain array of the same numbers
ArrayFrom(buf) == [i \in 1..Len(buf) |-> buf[i]]

\* arr[index - 1] = val: the last existing slot is overwritten instead
ArraySetOffByOne(arr, index, val) ==
    [arr EXCEPT ![index] = val]

\* arr[index] = val on a plain array, index counted from 0: overwrites an
\* existing slot, otherwise grows the array, leaving holes below index
ArraySet(arr, index, val) ==
    IF index < Len(arr)
    THEN [arr EXCEPT ![index + 1] = val]
    ELSE [i \in 1..(index + 1) |->
            IF i <= Len(arr) THEN arr[i]
            ELSE IF i = index + 1 THEN val ELSE Undefined]

\* Uint8Array.from(array): every element converted to a byte, a hole to 0
Uint8ArrayFrom(arr) ==
    [i \in 1..Len(arr) |-> IF arr[i] = Undefined THEN 0 ELSE Byte(arr[i])]

\* u8aToHex: two hexadecimal digits per byte, high digit first (after "0x")
u8aToHex(bytes) ==
    [i \in 1..(2 * Len(bytes)) |->
        IF i % 2 = 1 THEN bytes[(i + 1) \div 2] \div 16 ELSE bytes[i \div 2] % 16]

\* the chain's decoding of a hex string back into bytes
hexToU8a(hex) ==
    [i \in 1..(Len(hex) \div 2) |-> hex[2 * i - 1] * 16 + hex[2 * i]]


(* ------------------------------- state --------------------------------- *)

VARIABLES
    pc,                    \* position of the main flow
    tx,                    \* the transaction the main flow is at (1..NumTxs)
    microtasks,            \* queue of promise jobs, run in order
    ALICE_ROLE,            \* line 50
    BOB_ROLE,              \* line 51
    jobId,                 \* line 57
    dkgKeyPair,            \* line 146
    dkgPublicKey,          \* line 152
    dkgPublicKeyHash,      \* line 153
    signedMessage,         \* the buffers handed to ALICE_ROLE.sign, BOB_ROLE.sign
    signature1Array,       \* line 160
    signature2Array,       \* line 161
    submittingJobResultTx, \* line 168
    outerPromise,          \* per transaction: the promise awaited by the flow
    sendPromise,           \* per transaction: the promise signAndSend returned
    unsub,                 \* per transaction: the `unsub` binding
    submitCount,           \* per transaction: calls of signAndSend
    inBlockRuns,           \* per transaction: completed runs of the in-block branch
    tdzHit,                \* the in-block branch ran before `unsub` was assigned
    txStatus,              \* chain: status of each transaction
    pool,                  \* chain: the extrinsics received, in order
    chainNextJobId,        \* chain: jobs.nextJobId
    assignedJobId,         \* chain: the id given to the script's job
    otherJobs,             \* chain: jobs of other accounts included so far
    runCount,              \* how many times the script has been started
    prevRun                \* what the previous run of the script derived

scriptVars ==
    <<ALICE_ROLE, BOB_ROLE, jobId, dkgKeyPair, dkgPublicKey, dkgPublicKeyHash,
      signedMessage, signature1Array, signature2Array, submittingJobResultTx>>

promiseVars == <<outerPromise, sendPromise, unsub, submitCount, inBlockRuns, tdzHit>>

chainVars == <<txStatus, pool, chainNextJobId, assignedJobId, otherJobs>>

runVars == <<runCount, prevRun>>

vars == <<pc, tx, microtasks, scriptVars, promiseVars, chainVars, runVars>>

NoJob == 0 - 1

NoTx == [jobId |-> NoJob, key |-> <<>>, signatures |-> <<>>]

NoRun == [ALICE_ROLE |-> NoKey, BOB_ROLE |-> NoKey, dkgKeyPair |-> NoKey, key |-> <<>>]

Job(kind, k, status) == [kind |-> kind, tx |-> k, status |-> status]

\* the process runs until process.exit or a crash
Alive == pc \notin {"exited", "crashed"}

ScriptInit ==
    /\ pc = "create"
    /\ tx = 1
    /\ microtasks = <<>>
    /\ ALICE_ROLE = NoKey
    /\ BOB_ROLE = NoKey
    /\ jobId = NoJob
    /\ dkgKeyPair = NoKey
    /\ dkgPublicKey = <<>>
    /\ dkgPublicKeyHash = <<>>
    /\ signedMessage = <<>>
    /\ signature1Array = <<>>
    /\ signature2Array = <<>>
    /\ submittingJobResultTx = NoTx
    /\ outerPromise = [k \in Txs |-> "none"]
    /\ sendPromise = [k \in Txs |-> "none"]
    /\ unsub = [k \in Txs |-> "tdz"]
    /\ submitCount = [k \in Txs |-> 0]
    /\ inBlockRuns = [k \in Txs |-> 0]
    /\ tdzHit = FALSE

Init ==
    /\ ScriptInit
    /\ txStatus = [k \in Txs |-> "unsent"]
    /\ pool = <<>>
    /\ chainNextJobId \in 0..MaxInitJobId
    /\ assignedJobId = NoJob
    /\ otherJobs = 0
    /\ runCount = 1
    /\ prevRun = NoRun

(* --------------------------- the main flow ----------------------------- *)

\* line 28: ApiPromise.create resolves once the node is connected
ApiCreate ==
    /\ pc = "create"
    /\ pc' = "isReady"
    /\ UNCHANGED <<tx, microtasks, scriptVars, promiseVars, chainVars, runVars>>

\* line 31: api.isReady resolves
ApiIsReady ==
    /\ pc = "isReady"
    /\ pc' = "keys"
    /\ UNCHANGED <<tx, microtasks, scriptVars, promiseVars, chainVars, runVars>>

\* role key pairs made by ECPair.makeRandom
DeriveRoleKeysRandom ==
    /\ pc = "keys"
    /\ \E seedA \in {ALICE_ROLE_SEED, DKG_PRIVATE_KEY}, seedB \in {BOB_ROLE_SEED, DKG_PRIVATE_KEY} :
         /\ ALICE_ROLE' = ECPairFromPrivateKey(seedA, TRUE)
         /\ BOB_ROLE' = ECPairFromPrivateKey(seedB, TRUE)
    /\ pc' = "query"
    /\ UNCHANGED <<tx, microtasks, jobId, dkgKeyPair, dkgPublicKey, dkgPublicKeyHash,
                   signedMessage, signature1Array, signature2Array,
                   submittingJobResultTx, promiseVars, chainVars, runVars>>

\* lines 34-53: the role key pairs, from the fixed seeds
DeriveRoleKeys ==
    /\ pc = "keys"
    /\ ALICE_ROLE' = ECPairFromPrivateKey(ALICE_ROLE_SEED, TRUE)
    /\ BOB_ROLE' = ECPairFromPrivateKey(BOB_ROLE_SEED, TRUE)
    /\ pc' = "query"
    /\ UNCHANGED <<tx, microtasks, jobId, dkgKeyPair, dkgPublicKey, dkgPublicKeyHash,
                   signedMessage, signature1Array, signature2Array,
                   submittingJobResultTx, promiseVars, chainVars, runVars>>

\* lines 56-57: the one read of jobs.nextJobId
QueryNextJobId ==
    /\ pc = "query"
    /\ jobId' = chainNextJobId
    /\ pc' = "send"
    /\ UNCHANGED <<tx, microtasks, ALICE_ROLE, BOB_ROLE, dkgKeyPair, dkgPublicKey,
                   dkgPublicKeyHash, signedMessage, signature1Array, signature2Array,
                   submittingJobResultTx, promiseVars, chainVars, runVars>>

\* the flow that leaves after the job has been submitted
AfterTxEarlyExit(k) == IF k >= 3 THEN "exit" ELSE "send"

\* where the flow goes once transaction k has been dealt with
AfterTx(k) == IF k = NumTxs THEN "exit" ELSE IF k = 3 THEN "dkg" ELSE "send"

\* signAndSend whose outer promise is not awaited: the flow goes on at once
SignAndSendNoAwait(k) ==
    /\ pc = "send"
    /\ tx = k
    /\ pc' = AfterTx(k)
    /\ tx' = IF k < NumTxs THEN k + 1 ELSE k
    /\ outerPromise' = [outerPromise EXCEPT ![k] = "pending"]
    /\ sendPromise' = [sendPromise EXCEPT ![k] = "pending"]
    /\ submitCount' = [submitCount EXCEPT ![k] = @ + 1]
    /\ txStatus' = [txStatus EXCEPT ![k] = "submitted"]
    /\ pool' = Append(pool, TxPlan[k])
    /\ UNCHANGED <<microtasks, scriptVars, unsub, inBlockRuns, tdzHit,
                   chainNextJobId, assignedJobId, otherJobs, runVars>>

\* lines 76-77, 94-95, 128-129, 184-185: the promise is created, its executor
\* calls signAndSend and suspends on the promise that returns; the flow
\* suspends on the outer promise
SignAndSend(k) ==
    /\ pc = "send"
    /\ tx = k
    /\ pc' = "await"
    /\ outerPromise' = [outerPromise EXCEPT ![k] = "pending"]
    /\ sendPromise' = [sendPromise EXCEPT ![k] = "pending"]
    /\ submitCount' = [submitCount EXCEPT ![k] = @ + 1]
    /\ txStatus' = [txStatus EXCEPT ![k] = "submitted"]
    /\ pool' = Append(pool, TxPlan[k])
    /\ UNCHANGED <<tx, microtasks, scriptVars, unsub, inBlockRuns, tdzHit,
                   chainNextJobId, assignedJobId, otherJobs, runVars>>

\* line 77 (95, 129, 185): signAndSend's promise has resolved, the executor
\* resumes and `unsub` is bound
ResumeExecutor(k) ==
    /\ Alive
    /\ microtasks # <<>>
    /\ Head(microtasks) = Job("resumeExecutor", k, "")
    /\ microtasks' = Tail(microtasks)
    /\ unsub' = [unsub EXCEPT ![k] = "assigned"]
    /\ UNCHANGED <<pc, tx, scriptVars, outerPromise, sendPromise, submitCount,
                   inBlockRuns, tdzHit, chainVars, runVars>>

\* the status test that is true of every status
IsAnyStatus(status) == status \in {"ready", "inBlock", "finalized", "dropped", "invalid", "usurped"}

\* the status test that is true once the transaction has left the pool
IsOutOfPool(status) == status \in {"inBlock", "dropped", "invalid", "usurped"}

\* the status test that waits for finality
IsFinalized(status) == status = "finalized"

\* line 78: status.isInBlock
IsInBlock(status) == status = "inBlock"

\* lines 77-90 (95-108, 129-142, 185-198): the status callback.  In the
\* in-block branch it logs, calls unsub() and resolves the outer promise;
\* reading `unsub` before it is bound throws, the async callback's promise
\* is rejected with nobody handling it, and the runtime either ends the
\* process or only warns.
Callback(k, status) ==
    /\ Alive
    /\ microtasks # <<>>
    /\ Head(microtasks) = Job("callback", k, status)
    /\ IF ~IsInBlock(status)
       THEN /\ microtasks' = Tail(microtasks)
            /\ UNCHANGED <<pc, unsub, inBlockRuns, outerPromise, tdzHit>>
       ELSE IF unsub[k] = "tdz"
       THEN /\ tdzHit' = TRUE
            /\ \E crash \in BOOLEAN :
                 /\ pc' = IF crash THEN "crashed" ELSE pc
                 /\ microtasks' = IF crash THEN <<>> ELSE Tail(microtasks)
            /\ UNCHANGED <<unsub, inBlockRuns, outerPromise>>
       ELSE /\ unsub' = [unsub EXCEPT ![k] = "called"]
            /\ inBlockRuns' = [inBlockRuns EXCEPT ![k] = @ + 1]
            /\ outerPromise' = [outerPromise EXCEPT ![k] = "resolved"]
            /\ microtasks' =
                 IF outerPromise[k] = "pending"
                 THEN Append(Tail(microtasks), Job("resumeMain", k, ""))
                 ELSE Tail(microtasks)
            /\ UNCHANGED <<pc, tdzHit>>
    /\ UNCHANGED <<tx, scriptVars, sendPromise, submitCount, chainVars, runVars>>

\* lines 91, 109, 143, 199: the outer promise has resolved, the flow resumes
ResumeMain(k) ==
    /\ Alive
    /\ microtasks # <<>>
    /\ Head(microtasks) = Job("resumeMain", k, "")
    /\ microtasks' = Tail(microtasks)
    /\ pc' = AfterTx(k)
    /\ tx' = IF k < NumTxs THEN k + 1 ELSE k
    /\ UNCHANGED <<scriptVars, promiseVars, chainVars, runVars>>

\* lines 145-181: the DKG key pair, the two signatures over the hash of its
\* public key, and the submitJobResult call
BuildJobResult ==
    /\ pc = "dkg"
    /\ dkgKeyPair' = ECPairFromPrivateKey(DKG_PRIVATE_KEY, FALSE)
    /\ dkgPublicKey' = dkgKeyPair'.publicKey
    /\ dkgPublicKeyHash' = keccak256AsU8a(dkgPublicKey')
    /\ signedMessage' = <<dkgPublicKeyHash', dkgPublicKeyHash'>>
    /\ signature1Array' =
         ArraySet(ArrayFrom(Sign(ALICE_ROLE, signedMessage'[1], lowR)), 64, v)
    /\ signature2Array' =
         ArraySet(ArrayFrom(Sign(BOB_ROLE, signedMessage'[2], lowR)), 64, v)
    /\ submittingJobResultTx' =
         [jobId |-> jobId,
          key |-> u8aToHex(dkgPublicKey'),
          signatures |-> <<u8aToHex(Uint8ArrayFrom(signature1Array')),
                           u8aToHex(Uint8ArrayFrom(signature2Array'))>>]
    /\ pc' = "send"
    /\ UNCHANGED <<tx, microtasks, ALICE_ROLE, BOB_ROLE, jobId, promiseVars,
                   chainVars, runVars>>

\* line 202: process.exit(0); the pending jobs and subscriptions die with it
ProcessExit ==
    /\ pc = "exit"
    /\ pc' = "exited"
    /\ microtasks' = <<>>
    /\ UNCHANGED <<tx, scriptVars, promiseVars, chainVars, runVars>>

(* ----------------------- the chain and the client ---------------------- *)

\* the client's handling of a status notification of transaction k: while the
\* subscription is alive, the first notification resolves signAndSend's
\* promise with the unsubscribe function, and every notification schedules
\* the callback on a later tick.  Promise jobs run to completion before the
\* next websocket message is handled.
Delivers(k) == Alive /\ sendPromise[k] \in {"pending", "resolved"} /\ unsub[k] # "called"

JobsFor(k, status) ==
    (IF sendPromise[k] = "pending" THEN <<Job("resumeExecutor", k, "")>> ELSE <<>>)
        \o <<Job("callback", k, status)>>

Notify(k, status) ==
    IF Delivers(k)
    THEN /\ microtasks = <<>>
         /\ microtasks' = JobsFor(k, status)
         /\ sendPromise' = [sendPromise EXCEPT ![k] = "resolved"]
    ELSE UNCHANGED <<microtasks, sendPromise>>

\* the pool accepts the transaction
ChainReady(k) ==
    /\ txStatus[k] = "submitted"
    /\ txStatus' = [txStatus EXCEPT ![k] = "ready"]
    /\ Notify(k, "ready")
    /\ UNCHANGED <<pc, tx, scriptVars, outerPromise, unsub, submitCount, inBlockRuns,
                   tdzHit, pool, chainNextJobId, assignedJobId, otherJobs, runVars>>

\* the jobs pallet gives a submitted job the current counter value as its id
\* and advances the counter
JobsSubmitJob(next) == [id |-> next, next |-> next + 1]

\* the transaction is included in a block; the inclusion of submitJob creates
\* the job
ChainInBlock(k) ==
    /\ txStatus[k] \in {"submitted", "ready"}
    /\ txStatus' = [txStatus EXCEPT ![k] = "inBlock"]
    /\ Notify(k, "inBlock")
    /\ IF TxPlan[k].call = "jobs.submitJob"
       THEN /\ assignedJobId' = JobsSubmitJob(chainNextJobId).id
            /\ chainNextJobId' = JobsSubmitJob(chainNextJobId).next
       ELSE UNCHANGED <<assignedJobId, chainNextJobId>>
    /\ UNCHANGED <<pc, tx, scriptVars, outerPromise, unsub, submitCount, inBlockRuns,
                   tdzHit, pool, otherJobs, runVars>>

\* the block of the transaction is finalized
ChainFinalized(k) ==
    /\ txStatus[k] = "inBlock"
    /\ txStatus' = [txStatus EXCEPT ![k] = "finalized"]
    /\ Notify(k, "finalized")
    /\ UNCHANGED <<pc, tx, scriptVars, outerPromise, unsub, submitCount, inBlockRuns,
                   tdzHit, pool, chainNextJobId, assignedJobId, otherJobs, runVars>>

\* the transaction leaves the pool without being included
ChainDrops(k, status) ==
    /\ status \in {"dropped", "invalid", "usurped"}
    /\ txStatus[k] = "ready"
    /\ txStatus' = [txStatus EXCEPT ![k] = status]
    /\ Notify(k, status)
    /\ UNCHANGED <<pc, tx, scriptVars, outerPromise, unsub, submitCount, inBlockRuns,
                   tdzHit, pool, chainNextJobId, assignedJobId, otherJobs, runVars>>

\* the node refuses the transaction: signAndSend's promise is rejected, the
\* executor throws out of its await, nobody handles the rejection, and the
\* runtime either ends the process or only warns
SignAndSendRejects(k) ==
    /\ Alive
    /\ txStatus[k] = "submitted"
    /\ sendPromise[k] = "pending"
    /\ microtasks = <<>>
    /\ txStatus' = [txStatus EXCEPT ![k] = "rejected"]
    /\ sendPromise' = [sendPromise EXCEPT ![k] = "rejected"]
    /\ \E crash \in BOOLEAN : pc' = IF crash THEN "crashed" ELSE pc
    /\ UNCHANGED <<tx, microtasks, scriptVars, outerPromise, unsub, submitCount,
                   inBlockRuns, tdzHit, pool, chainNextJobId, assignedJobId,
                   otherJobs, runVars>>

\* another account's job is included and takes the next id
OtherSubmitJob ==
    /\ otherJobs < MaxOtherJobs
    /\ otherJobs' = otherJobs + 1
    /\ chainNextJobId' = JobsSubmitJob(chainNextJobId).next
    /\ UNCHANGED <<pc, tx, microtasks, scriptVars, promiseVars, txStatus, pool,
                   assignedJobId, runVars>>

(* ------------------------------ re-running ----------------------------- *)

\* the script is started again (after it ended, or after it was stopped)
\* against the same chain
Rerun ==
    /\ runCount < MaxRuns
    /\ pc # "create"
    /\ runCount' = runCount + 1
    /\ prevRun' = [ALICE_ROLE |-> ALICE_ROLE, BOB_ROLE |-> BOB_ROLE,
                   dkgKeyPair |-> dkgKeyPair, key |-> submittingJobResultTx.key]
    /\ pc' = "create"
    /\ tx' = 1
    /\ microtasks' = <<>>
    /\ ALICE_ROLE' = NoKey
    /\ BOB_ROLE' = NoKey
    /\ jobId' = NoJob
    /\ dkgKeyPair' = NoKey
    /\ dkgPublicKey' = <<>>
    /\ dkgPublicKeyHash' = <<>>
    /\ signedMessage' = <<>>
    /\ signature1Array' = <<>>
    /\ signature2Array' = <<>>
    /\ submittingJobResultTx' = NoTx
    /\ outerPromise' = [k \in Txs |-> "none"]
    /\ sendPromise' = [k \in Txs |-> "none"]
    /\ unsub' = [k \in Txs |-> "tdz"]
    /\ submitCount' = [k \in Txs |-> 0]
    /\ inBlockRuns' = [k \in Txs |-> 0]
    /\ tdzHit' = FALSE
    /\ txStatus' = [k \in Txs |-> "unsent"]
    /\ pool' = <<>>
    /\ assignedJobId' = NoJob
    /\ UNCHANGED <<chainNextJobId, otherJobs>>

(* --------------------------- specifications ---------------------------- *)

FlowStep ==
    \/ ApiCreate
    \/ ApiIsReady
    \/ DeriveRoleKeys
    \/ QueryNextJobId
    \/ \E k \in Txs : SignAndSend(k)
    \/ BuildJobResult
    \/ ProcessExit

JobStep ==
    \/ \E k \in Txs : ResumeExecutor(k)
    \/ \E k \in Txs, status \in {"ready", "inBlock", "finalized", "dropped", "invalid", "usurped"} :
          Callback(k, status)
    \/ \E k \in Txs : ResumeMain(k)

ChainProgress ==
    \/ \E k \in Txs : ChainReady(k)
    \/ \E k \in Txs : ChainInBlock(k)
    \/ \E k \in Txs : ChainFinalized(k)

ChainFailure ==
    \/ \E k \in Txs, status \in {"dropped", "invalid", "usurped"} : ChainDrops(k, status)
    \/ \E k \in Txs : SignAndSendRejects(k)

Next == FlowStep \/ JobStep \/ ChainProgress \/ ChainFailure \/ OtherSubmitJob

Spec == Init /\ [][Next]_vars

NextRerun == Next \/ Rerun

SpecRerun == Init /\ [][NextRerun]_vars

\* the node becomes ready and every submitted transaction is reported in a block
NextLive == FlowStep \/ JobStep \/ ChainProgress \/ OtherSubmitJob

SpecLive ==
    /\ Init
    /\ [][NextLive]_vars
    /\ WF_vars(FlowStep)
    /\ WF_vars(JobStep)
    /\ \A k \in Txs : WF_vars(ChainInBlock(k))

TypeOK ==
    /\ pc \in {"create", "isReady", "keys", "query", "send", "await", "dkg", "exit",
               "exited", "crashed"}
    /\ tx \in Txs
    /\ Len(microtasks) <= 2
    /\ \A k \in Txs : outerPromise[k] \in {"none", "pending", "resolved"}
    /\ \A k \in Txs : sendPromise[k] \in {"none", "pending", "resolved", "rejected"}
    /\ \A k \in Txs : unsub[k] \in {"tdz", "assigned", "called"}

(* ------------------------------- claims -------------------------------- *)

Included(k) == txStatus[k] \in {"inBlock", "finalized"}

Failed(k) == txStatus[k] \in {"dropped", "invalid", "usurped", "rejected"}

\* submitted and not yet observed as included by the callback
InFlight(k) == submitCount[k] > 0 /\ inBlockRuns[k] = 0

\* C1: at most one of the four transactions is submitted and not yet observed
\* as included, in every reachable state
C1_AtMostOneInFlight == Cardinality({k \in Txs : InFlight(k)}) <= 1

C1_Witness == InFlight(3) /\ inBlockRuns[1] = 1 /\ inBlockRuns[2] = 1

\* C2: the chain receives the transactions in the order createProfile by
\* Alice, createProfile by Bob, submitJob by Alice, submitJobResult by Alice,
\* and each one after the first only after the in-block notification of the
\* one before it was observed; submitJobResult never before submitJob is
\* included
C2_FixedOrder ==
    /\ Len(pool) <= NumTxs
    /\ \A i \in 1..Len(pool) : pool[i] = TxPlan[i]
    /\ \A k \in Txs : submitCount[k] > 0 <=> k <= Len(pool)
    /\ \A k \in 2..Len(pool) : inBlockRuns[k - 1] >= 1 /\ Included(k - 1)
    /\ submitCount[4] > 0 => Included(3)

C2_Witness == Len(pool) = NumTxs /\ pool[4].call = "jobs.submitJobResult" /\ Included(3)

\* C3: the process has exited only if every one of the four transactions was
\* submitted and its in-block notification observed, the last one included
C3_ExitOnlyAfterAll ==
    pc = "exited" => \A k \in Txs : submitCount[k] = 1 /\ inBlockRuns[k] >= 1 /\ Included(k)

C3_Witness == pc = "exited"

\* C4: the id the chain gives to the script's job is the counter value the
\* script read before submitting, and the id passed to submitJobResult is the
\* id of the script's own job
C4_JobIdIsOwn ==
    /\ assignedJobId # NoJob => assignedJobId = jobId
    /\ submittingJobResultTx # NoTx => submittingJobResultTx.jobId = assignedJobId

\* C5: each signature in the job result is 65 bytes: the 64 bytes signed by the
\* role key (Alice's first, Bob's second) over the hash of the DKG public key,
\* unchanged, followed by the same fixed byte 28
C5_SignatureShape ==
    submittingJobResultTx # NoTx =>
        LET s1 == hexToU8a(submittingJobResultTx.signatures[1])
            s2 == hexToU8a(submittingJobResultTx.signatures[2])
            hash == keccak256AsU8a(dkgPublicKey)
        IN  /\ Len(submittingJobResultTx.signatures) = 2
            /\ Len(s1) = 65 /\ Len(s2) = 65
            /\ Len(signature1Array) = 65 /\ Len(signature2Array) = 65
            /\ SubSeq(s1, 1, 64) = Sign(ALICE_ROLE, hash, FALSE)
            /\ SubSeq(s2, 1, 64) = Sign(BOB_ROLE, hash, FALSE)
            /\ s1[65] = 28 /\ s2[65] = 28

C5_Witness ==
    /\ submittingJobResultTx # NoTx
    /\ Len(submittingJobResultTx.signatures[1]) = 130
    /\ submittingJobResultTx.signatures[1] # submittingJobResultTx.signatures[2]

\* C6: every transaction is submitted at most once, and while a submitted
\* transaction has not been seen in a block (it was refused, dropped, or only
\* reported other statuses) its promise is unresolved, no later transaction
\* is submitted and the process exit is not reached
C6_NoRetryNoRecovery ==
    /\ \A k \in Txs : submitCount[k] <= 1
    /\ \A k \in Txs :
         (Failed(k) \/ inBlockRuns[k] = 0) =>
            /\ outerPromise[k] # "resolved"
            /\ \A j \in Txs : j > k => submitCount[j] = 0 /\ txStatus[j] = "unsent"
            /\ pc \notin {"exit", "exited"}
    /\ \A k \in Txs : Failed(k) => inBlockRuns[k] = 0

C6_Witness ==
    /\ txStatus[2] = "dropped"
    /\ microtasks = <<>>
    /\ pc = "await"
    /\ outerPromise[2] = "pending"

\* C7: when the node becomes ready and the chain reports every submitted
\* transaction in a block, the script eventually has observed all four
\* inclusions and has exited
C7_EventuallyExits == <>(pc = "exited" /\ \A k \in Txs : inBlockRuns[k] >= 1)

C7_Witness == pc = "exited" /\ \A k \in Txs : inBlockRuns[k] = 1

\* C8: a run of the script derives the same role key pairs, the same DKG key
\* pair and the same result key as the run before it, whatever the chain's
\* state and notifications were in either run
C8_SameKeysEveryRun ==
    /\ (ALICE_ROLE # NoKey /\ prevRun.ALICE_ROLE # NoKey) => ALICE_ROLE = prevRun.ALICE_ROLE
    /\ (BOB_ROLE # NoKey /\ prevRun.BOB_ROLE # NoKey) => BOB_ROLE = prevRun.BOB_ROLE
    /\ (dkgKeyPair # NoKey /\ prevRun.dkgKeyPair # NoKey) => dkgKeyPair = prevRun.dkgKeyPair
    /\ (submittingJobResultTx.key # <<>> /\ prevRun.key # <<>>) =>
           submittingJobResultTx.key = prevRun.key

C8_Witness ==
    /\ runCount = 2
    /\ prevRun.ALICE_ROLE # NoKey
    /\ prevRun.key # <<>>
    /\ submittingJobResultTx.key # <<>>
    /\ otherJobs > 0

\* C9: the message both role keys sign is the hash of the compressed public
\* key of the DKG key pair, and that public key is the key of the job result
C9_SignsCompressedKey ==
    submittingJobResultTx # NoTx =>
        LET compressedKey == PointFromScalar(dkgKeyPair.privateKey, TRUE)
        IN  /\ signedMessage = <<keccak256AsU8a(compressedKey), keccak256AsU8a(compressedKey)>>
            /\ hexToU8a(submittingJobResultTx.key) = compressedKey

====
